---- MODULE Spec2Model ----
(***************************************************************************)
(* Model of excels_analytics/excel_merger_gui.py: the sheet naming         *)
(* functions, the ExcelMergeWorker thread (COM strategy and PowerShell     *)
(* strategy) and the App methods that start, cancel and poll it.           *)
(*                                                                         *)
(* A sheet name is a sequence of one-character strings.  The Excel host    *)
(* and the PowerShell process are outside the repository: every call into  *)
(* them either returns or raises, chosen nondeterministically.             *)
(***************************************************************************)
EXTENDS Integers, Sequences, FiniteSets, TLC

VARIABLES
    \* ---- App (UI thread) ----
    worker,          \* App.worker: "None" or "Thread"
    cancel_event,    \* threading.Event shared by App and worker
    ui_queue,        \* queue.Queue worker -> UI
    save_queue,      \* queue.Queue UI -> worker
    start_btn,       \* TRUE = tk.NORMAL
    cancel_btn,      \* TRUE = tk.NORMAL
    uiPc,            \* "idle" | "polling" (inside _poll_ui_queue)
    folder_var,      \* index in Directories of the folder in the entry field
    selected_only_var, \* the "selected only" checkbox
    item_to_path,    \* the Excel files listed by the last _refresh_list
    selection,       \* tree.selection(): positions in item_to_path
    \* ---- environment ----
    pywin32,         \* whether "import pythoncom, win32com.client" succeeds
    \* ---- ExcelMergeWorker thread ----
    liveThreads,     \* number of worker threads started and not yet ended
    pc,              \* position of the worker thread
    files,           \* self.files
    excel,           \* "None" | "App" (DispatchEx returned)
    dest_wb,         \* "None" | "Workbook"
    sheets,          \* worksheets of the destination workbook, in order
    initial_sheets,  \* placeholder numbers held in initial_sheets
    copied_any,
    idx,             \* enumerate(self.files, start=1)
    sidx,
    delPos,          \* position of the loop of line 221 in initial_sheets
    src_wb,          \* "Workbook" from Workbooks.Open until src_wb.Close is called
    existing,        \* names read from the destination before the copy
    suggested,       \* safe_default_filename(...) of line 230: its clock reading
    status,          \* the status the close/quit/done sequence will report
    closeCalls,      \* dest_wb.Close(SaveChanges=False) invocations
    quitCalls,       \* excel.Quit() invocations
    saved,           \* dest_wb.SaveAs returned normally at least once
    \* ---- PowerShell strategy ----
    proc,            \* "None" | "running" | "exited"
    rc,              \* exit code once exited
    file_list,       \* the temporary file list exists
    cancel_flag,     \* the cancellation sentinel exists
    flagWrites,      \* calls of write_text on the sentinel in this run
    linesRead,       \* protocol lines read in this run
    \* ---- history of the current run ----
    emitted,         \* events the worker has put on ui_queue, in order
    raised,          \* the calls that have raised, in order
    handshake,       \* each answer the worker has received, with its outcome
    cancelledBefore, \* k if cancel was set before the checkpoint of file k
    \* ---- a call of make_unique_sheet_name on its own ----
    call             \* its arguments and what it returned

vars == <<worker, cancel_event, ui_queue, save_queue, start_btn, cancel_btn,
          uiPc, folder_var, pywin32, liveThreads, pc, files, excel, dest_wb,
          sheets, initial_sheets, copied_any, idx, sidx, delPos, src_wb,
          existing, suggested, status, closeCalls, quitCalls, saved, proc, rc,
          file_list, cancel_flag, flagWrites, linesRead, emitted, raised,
          handshake, cancelledBefore, call, selected_only_var, item_to_path,
          selection>>

\* What no step of App or of the worker thread changes.
fixedVars == <<pywin32, call, selected_only_var>>

\* The list shown in the tree and what is selected in it.
listVars == <<item_to_path, selection>>

\* What no step of the worker thread changes.
appVars == <<worker, cancel_event, start_btn, cancel_btn, uiPc, folder_var,
             fixedVars, listVars, cancelledBefore>>
psVars == <<proc, rc, file_list, cancel_flag, flagWrites, linesRead>>
comVars == <<excel, dest_wb, sheets, initial_sheets, copied_any, idx, sidx,
             delPos, src_wb, existing, suggested, status, closeCalls, quitCalls,
             saved>>

----------------------------------------------------------------------------
\* Bounds of the model.

\* Failing save attempts the host may produce in one run.
MaxSaveFailures == 2
\* Protocol lines the external process may write in one run.
MaxLines == 1
\* Calls into the host or the operating system that may raise in one run
\* (failing saves are counted by MaxSaveFailures).
MaxFaults == 2

----------------------------------------------------------------------------
\* Sheet naming policy (lines 39-62).

MaxSheetNameLen == 31
SuffixLimit == 10000

Illegal == {":", "\\", "/", "?", "*", "[", "]"}
Whitespace == {" ", "\t", "\n"}

Take(s, n) == IF Len(s) <= n THEN s ELSE SubSeq(s, 1, n)

RECURSIVE LStrip(_)
LStrip(s) == IF s # <<>> /\ Head(s) \in Whitespace THEN LStrip(Tail(s)) ELSE s

RECURSIVE RStrip(_)
RStrip(s) ==
    IF s # <<>> /\ s[Len(s)] \in Whitespace
    THEN RStrip(SubSeq(s, 1, Len(s) - 1))
    ELSE s

Strip(s) == RStrip(LStrip(s))

DefaultLabel == <<"S", "h", "e", "e", "t">>

\* Mutant: the illegal characters are left in place.
SanitizeStripOnly(name) ==
    IF Strip(name) = <<>> THEN DefaultLabel ELSE Strip(name)

sanitize_sheet_name(name) ==
    LET cleaned == Strip([i \in 1..Len(name) |->
                            IF name[i] \in Illegal THEN "_" ELSE name[i]])
    IN  IF cleaned = <<>> THEN DefaultLabel ELSE cleaned

truncate_sheet_name(name, max_len) == Take(name, max_len)

Digit(d) == CASE d = 0 -> "0" [] d = 1 -> "1" [] d = 2 -> "2" [] d = 3 -> "3"
              [] d = 4 -> "4" [] d = 5 -> "5" [] d = 6 -> "6" [] d = 7 -> "7"
              [] d = 8 -> "8" [] d = 9 -> "9"

RECURSIVE IntToStr(_)
IntToStr(n) == IF n < 10 THEN <<Digit(n)>>
               ELSE IntToStr(n \div 10) \o <<Digit(n % 10)>>

Suffix(n) == <<"_">> \o IntToStr(n)

\* Mutant: the base is not cut to make room for the suffix.
CandidateUncut(base, n) == base \o Suffix(n)

Candidate(base, n) ==
    truncate_sheet_name(base, MaxSheetNameLen - Len(Suffix(n))) \o Suffix(n)

NameSpaceExhausted == <<"RuntimeError">>

\* The loop of lines 55-60 over n = lo..hi in increasing order, returning at
\* the first candidate that is not in existing_names; line 62 when there is
\* none.  The range is scanned lower half first, then upper half.
RECURSIVE ProbeRange(_, _, _, _)
ProbeRange(existing_names, base, lo, hi) ==
    IF lo > hi THEN NameSpaceExhausted
    ELSE IF lo = hi
    THEN IF Candidate(base, lo) \notin existing_names
         THEN Candidate(base, lo)
         ELSE NameSpaceExhausted
    ELSE LET mid == (lo + hi) \div 2
             first == ProbeRange(existing_names, base, lo, mid)
         IN  IF first # NameSpaceExhausted THEN first
             ELSE ProbeRange(existing_names, base, mid + 1, hi)

Probe(existing_names, base, n) ==
    ProbeRange(existing_names, base, n, SuffixLimit - 1)

\* Mutant: the base name is returned without looking at existing_names.
MakeUniqueNoProbe(existing_names, desired) ==
    truncate_sheet_name(sanitize_sheet_name(desired), MaxSheetNameLen)

make_unique_sheet_name(existing_names, desired) ==
    LET base == truncate_sheet_name(sanitize_sheet_name(desired), MaxSheetNameLen)
    IN  IF base \notin existing_names THEN base
        ELSE Probe(existing_names, base, 2)

CopyMarker == <<"_", "c", "o", "p", "y">>

Legal(name) ==
    /\ Len(name) <= MaxSheetNameLen
    /\ \A i \in 1..Len(name) : name[i] \notin Illegal

----------------------------------------------------------------------------
\* The environment: folders of workbooks and the Excel host.

Jan == <<"J", "a", "n">>
Feb == <<"F", "e", "b">>
Mar == <<"M", "a", "r">>
Sheet1 == <<"S", "h", "e", "e", "t", "1">>
Sheet2 == <<"S", "h", "e", "e", "t", "2">>
\* A name of the greatest length Excel allows.
LongName == [i \in 1..MaxSheetNameLen |-> "x"]

EXCEL_EXTS ==
    {<<".", "x", "l", "s">>, <<".", "x", "l", "s", "x">>,
     <<".", "x", "l", "s", "m">>, <<".", "x", "l", "s", "b">>}

UpperCase == <<"A", "B", "C", "D", "E", "F", "G", "H", "I", "J", "K", "L", "M",
               "N", "O", "P", "Q", "R", "S", "T", "U", "V", "W", "X", "Y", "Z">>
LowerCase == <<"a", "b", "c", "d", "e", "f", "g", "h", "i", "j", "k", "l", "m",
               "n", "o", "p", "q", "r", "s", "t", "u", "v", "w", "x", "y", "z">>

\* The characters of file names, in the order of their code points.
CodePoints == <<"$", ".", "0", "1", "2", "3", "4", "5", "6", "7", "8", "9">>
                \o UpperCase \o <<"_">> \o LowerCase \o <<"~">>

Code(c) == CHOOSE i \in 1..Len(CodePoints) : CodePoints[i] = c

\* str.lower().
Lower(s) ==
    [i \in 1..Len(s) |->
        IF \E k \in 1..Len(UpperCase) : UpperCase[k] = s[i]
        THEN LowerCase[CHOOSE k \in 1..Len(UpperCase) : UpperCase[k] = s[i]]
        ELSE s[i]]

\* a < b for strings.
RECURSIVE StrLess(_, _)
StrLess(a, b) ==
    IF b = <<>> THEN FALSE
    ELSE IF a = <<>> THEN TRUE
    ELSE IF Head(a) # Head(b) THEN Code(Head(a)) < Code(Head(b))
    ELSE StrLess(Tail(a), Tail(b))

\* str.startswith.
StartsWith(s, prefix) ==
    Len(s) >= Len(prefix) /\ SubSeq(s, 1, Len(prefix)) = prefix

\* Path.suffix: the name from its last dot on, when that dot is neither the
\* first nor the last character.
PathSuffix(name) ==
    LET dots == {i \in 1..Len(name) : name[i] = "."}
        last == CHOOSE i \in dots : \A j \in dots : j <= i
    IN  IF dots = {} THEN <<>>
        ELSE IF 1 < last /\ last < Len(name)
        THEN SubSeq(name, last, Len(name))
        ELSE <<>>

\* is_excel_file, lines 26-31.
is_excel_file(path) ==
    IF path.is_dir THEN FALSE
    ELSE IF StartsWith(path.name, <<"~", "$">>) THEN FALSE
    ELSE Lower(PathSuffix(path.name)) \in EXCEL_EXTS

\* sorted(paths, key=lambda p: p.name.lower()): a stable insertion sort.
RECURSIVE Insert(_, _)
Insert(sorted, p) ==
    IF sorted = <<>> THEN <<p>>
    ELSE IF StrLess(Lower(p.name), Lower(Head(sorted).name))
    THEN <<p>> \o sorted
    ELSE <<Head(sorted)>> \o Insert(Tail(sorted), p)

RECURSIVE SortedByName(_)
SortedByName(paths) ==
    IF paths = <<>> THEN <<>>
    ELSE Insert(SortedByName(SubSeq(paths, 1, Len(paths) - 1)),
                paths[Len(paths)])

\* The Excel files of a directory listing, sorted (lines 496 and 510).
ExcelFilesOf(entries) == SortedByName(SelectSeq(entries, is_excel_file))

\* A directory entry: its name, whether it is a directory, and, for a
\* workbook, the names of its worksheets in native order.
Entry(name, is_dir, shs) == [name |-> name, is_dir |-> is_dir, sheets |-> shs]

\* The folders the operator can name, each as folder.iterdir() lists it.
Directories == <<
    << Entry(<<"B", ".", "x", "l", "s", "x">>, FALSE, <<Jan, Mar>>),
       Entry(<<"~", "$", "a", ".", "X", "L", "S", "X">>, FALSE, <<>>),
       Entry(<<"a", ".", "X", "L", "S", "X">>, FALSE, <<Jan, Feb>>),
       Entry(<<"n", "o", "t", "e", "s", ".", "t", "x", "t">>, FALSE, <<>>) >>,
    << Entry(<<"3", ".", "x", "l", "s", "b">>, FALSE, <<LongName>>),
       Entry(<<"o", "l", "d", ".", "x", "l", "s", "x">>, TRUE, <<>>),
       Entry(<<"1", ".", "x", "l", "s">>, FALSE, <<Sheet1>>),
       Entry(<<"2", ".", "x", "l", "s", "m">>, FALSE, <<LongName>>) >>,
    << Entry(<<"~", "$", "a", ".", "x", "l", "s", "x">>, FALSE, <<>>),
       Entry(<<"n", "o", "t", "e", "s", ".", "t", "x", "t">>, FALSE, <<>>),
       Entry(<<".", "x", "l", "s", "x">>, FALSE, <<>>),
       Entry(<<"a", ".", "x", "l", "s", "x", ".", "b", "a", "k">>, FALSE, <<>>) >>,
    << Entry(<<"c", ".", "x", "l", "s", "x">>, FALSE, <<Feb>>) >>
  >>

\* What listing each folder gives.
ListedFiles == [f \in 1..Len(Directories) |-> ExcelFilesOf(Directories[f])]

\* The worksheets of each of a list of workbooks.
SheetsOf(paths) == [i \in 1..Len(paths) |-> paths[i].sheets]

\* Each folder as the sorted list of its Excel files (lines 496, 510); each
\* file is the list of the names of its worksheets in native order.
Folders == [f \in 1..Len(Directories) |-> SheetsOf(ListedFiles[f])]

\* Number of worksheets Workbooks.Add() puts in a new workbook: two, so that
\* the loop of lines 220-227 has a second turn.
NewWorkbookSheets == {2}

PlaceholderName(i) == IF i = 1 THEN Sheet1 ELSE Sheet2

Placeholder(i) == [name |-> PlaceholderName(i), src |-> <<0, i>>, by |-> "host"]

Names(shs) == {shs[i].name : i \in 1..Len(shs)}

HostMarker(n) == <<" ", "(">> \o IntToStr(n) \o <<")">>

RECURSIVE HostProbe(_, _, _)
HostProbe(names, name, n) ==
    IF name \o HostMarker(n) \notin names THEN name \o HostMarker(n)
    ELSE HostProbe(names, name, n + 1)

\* The name Excel gives the copy made by Worksheet.Copy: the source name, or
\* the source name with " (n)" when the destination already has it.
HostCopyName(names, name) ==
    IF name \notin names THEN name ELSE HostProbe(names, name, 2)

----------------------------------------------------------------------------
\* Events on ui_queue (lines 100-108, 115-116).

Log(tag, a) == [kind |-> "log", tag |-> tag, a |-> a, b |-> 0]
Progress(current, total) == [kind |-> "progress", tag |-> "", a |-> current, b |-> total]
RequestSave(ts, folder) == [kind |-> "request_save", tag |-> "", a |-> ts, b |-> folder]
ErrorEvent(site) == [kind |-> "error", tag |-> site, a |-> 0, b |-> 0]
Done(st) == [kind |-> "done", tag |-> st, a |-> 0, b |-> 0]

\* self.ui_queue.put for each event of evs, in order.
Put(evs) ==
    /\ ui_queue' = ui_queue \o evs
    /\ emitted' = emitted \o evs

NoPut == UNCHANGED <<ui_queue, emitted>>

N == Len(files)

----------------------------------------------------------------------------
\* Initial state: the App is constructed and the operator has set the
\* window up (lines 396-412, 473-503); no worker exists.

FolderFiles == Folders[folder_var]

\* How the operator has set the window up: a folder was browsed to and
\* listed; the name of a folder without workbooks may have been typed into
\* the entry field since; on a folder with a single workbook "selected
\* only" may be ticked, with no row or the first row of the list selected.
Setups ==
    {s \in [listed : 1..Len(Directories), folder : 1..Len(Directories),
            only : BOOLEAN, rows : {{}, {1}}] :
        /\ s.folder # s.listed => (Folders[s.folder] = <<>> /\ ~s.only)
        /\ s.only => Len(Folders[s.listed]) = 1
        /\ s.rows # {} => s.only}

\* The value of a result that has not been computed yet.
NotCalled == <<"NotCalled">>

\* No call of make_unique_sheet_name on its own is under way.
NoCall ==
    [existing_names |-> {}, desired |-> <<>>,
     result |-> NotCalled, again |-> NotCalled]

\* What App.__init__ and the construction of the widgets leave.
Constructed ==
    /\ worker = "None"
    /\ cancel_event = FALSE
    /\ ui_queue = <<>>
    /\ save_queue = <<>>
    /\ start_btn = (item_to_path # <<>>)
    /\ cancel_btn = FALSE
    /\ uiPc = "idle"
    /\ liveThreads = 0
    /\ pc = "none"
    /\ files = <<>>
    /\ excel = "None"
    /\ dest_wb = "None"
    /\ sheets = <<>>
    /\ initial_sheets = <<>>
    /\ copied_any = FALSE
    /\ idx = 0
    /\ sidx = 0
    /\ delPos = 0
    /\ src_wb = "None"
    /\ existing = {}
    /\ suggested = 0
    /\ status = "None"
    /\ closeCalls = 0
    /\ quitCalls = 0
    /\ saved = FALSE
    /\ proc = "None"
    /\ rc = 0
    /\ file_list = FALSE
    /\ cancel_flag = FALSE
    /\ flagWrites = 0
    /\ linesRead = 0
    /\ emitted = <<>>
    /\ raised = <<>>
    /\ handshake = <<>>
    /\ cancelledBefore = 0

Init ==
    /\ call = NoCall
    /\ pywin32 \in BOOLEAN
    /\ \E s \in Setups :
         /\ folder_var = s.folder
         /\ item_to_path = ListedFiles[s.listed]
         /\ selected_only_var = s.only
         /\ selection = s.rows
    /\ Constructed

----------------------------------------------------------------------------
\* App: the UI thread (lines 479-614).

\* _refresh_list, lines 479-503.
RefreshList ==
    /\ uiPc = "idle"
    /\ item_to_path' = ListedFiles[folder_var]
    /\ selection' = {}
    /\ start_btn' = (item_to_path' # <<>>)
    /\ UNCHANGED <<worker, cancel_event, cancel_btn, uiPc, folder_var, fixedVars,
                   ui_queue, save_queue, liveThreads, pc, files, comVars,
                   psVars, emitted, raised, handshake, cancelledBefore>>

\* Mutant: the check of App.worker is missing.
StartNeverRefused == FALSE

\* Line 506: a start is refused while App.worker is set.
StartRefused == worker # "None"

\* _start_merge, lines 505-535, invoked by the start button.
\* The rows of the list that are selected, in the order of the list.
RECURSIVE PickRows(_, _)
PickRows(rows, i) ==
    IF i > Len(rows) THEN <<>>
    ELSE (IF i \in selection THEN <<rows[i]>> ELSE <<>>) \o PickRows(rows, i + 1)

\* Lines 509-516: the files of the run.
EffectiveFiles ==
    IF selected_only_var
    THEN SortedByName(PickRows(item_to_path, 1))
    ELSE ListedFiles[folder_var]

\* Mutant: a start with no file is not refused.
EmptyNeverRefused(fs) == FALSE

\* Line 518: a start with no file is refused.
EmptyRefused(fs) == fs = <<>>

StartMerge ==
    /\ uiPc = "idle"
    /\ start_btn
    /\ IF StartRefused \/ EmptyRefused(EffectiveFiles)
       THEN UNCHANGED vars
       ELSE /\ cancel_event' = FALSE
            /\ worker' = "Thread"
            /\ start_btn' = FALSE
            /\ cancel_btn' = TRUE
            /\ liveThreads' = liveThreads + 1
            /\ pc' = "start"
            /\ files' = SheetsOf(EffectiveFiles)
            /\ excel' = "None"
            /\ dest_wb' = "None"
            /\ sheets' = <<>>
            /\ initial_sheets' = <<>>
            /\ copied_any' = FALSE
            /\ idx' = 0
            /\ sidx' = 0
            /\ delPos' = 0
            /\ src_wb' = "None"
            /\ existing' = {}
            /\ suggested' = 0
            /\ status' = "None"
            /\ closeCalls' = 0
            /\ quitCalls' = 0
            /\ saved' = FALSE
            /\ proc' = "None"
            /\ rc' = 0
            /\ file_list' = FALSE
            /\ cancel_flag' = FALSE
            /\ flagWrites' = 0
            /\ linesRead' = 0
            /\ emitted' = <<>>
            /\ raised' = <<>>
            /\ handshake' = <<>>
            /\ cancelledBefore' = 0
            /\ UNCHANGED <<uiPc, folder_var, fixedVars, listVars, ui_queue,
                           save_queue>>

\* The file whose checkpoint (line 157) the worker has still to reach.
CheckpointAhead ==
    IF pc \in {"start", "dispatch", "add"} THEN 1
    ELSE IF pc = "file_check" THEN idx
    ELSE IF pc \in {"open", "sheet", "rename", "close_src"} THEN idx + 1
    ELSE N + 1

\* _cancel_merge, lines 537-541, invoked by the cancel button.
CancelMerge ==
    /\ uiPc = "idle"
    /\ cancel_btn
    /\ IF worker = "None"
       THEN UNCHANGED vars
       ELSE /\ cancel_event' = TRUE
            /\ cancelledBefore' =
                 IF cancel_event THEN cancelledBefore ELSE CheckpointAhead
            /\ UNCHANGED <<worker, start_btn, cancel_btn, uiPc, folder_var,
                           fixedVars, listVars, ui_queue, save_queue,
                           liveThreads, pc,
                           files, comVars, psVars, emitted, raised,
                           handshake>>

\* _poll_ui_queue is entered from the Tk timer (lines 412, 575).
PollBegin ==
    /\ uiPc = "idle"
    /\ uiPc' = "polling"
    /\ UNCHANGED <<worker, cancel_event, start_btn, cancel_btn, folder_var,
                   fixedVars, listVars, ui_queue, save_queue, liveThreads,
                   pc, files,
                   comVars, psVars, emitted, raised, handshake,
                   cancelledBefore>>

\* What _handle_save_request puts on save_queue (lines 602, 608).
SaveAnswers == {"path", "None"}

\* One turn of the loop of lines 556-571: get_nowait and the handler.
PollEvent ==
    /\ uiPc = "polling"
    /\ ui_queue # <<>>
    /\ ui_queue' = Tail(ui_queue)
    /\ LET ev == Head(ui_queue) IN
         CASE ev.kind = "request_save" ->
                /\ \E ans \in SaveAnswers : save_queue' = Append(save_queue, ans)
                /\ UNCHANGED <<worker, start_btn, cancel_btn, listVars>>
           [] ev.kind = "done" ->
                /\ worker' = "None"
                /\ item_to_path' = ListedFiles[folder_var]
                /\ selection' = {}
                /\ start_btn' = (item_to_path' # <<>>)
                /\ cancel_btn' = FALSE
                /\ UNCHANGED save_queue
           [] OTHER ->
                UNCHANGED <<worker, start_btn, cancel_btn, save_queue,
                            listVars>>
    /\ UNCHANGED <<cancel_event, uiPc, folder_var, fixedVars, liveThreads, pc,
                   files, comVars, psVars, emitted, raised, handshake,
                   cancelledBefore>>

\* get_nowait raises queue.Empty: lines 572-575.
PollEnd ==
    /\ uiPc = "polling"
    /\ ui_queue = <<>>
    /\ uiPc' = "idle"
    /\ UNCHANGED <<worker, cancel_event, start_btn, cancel_btn, folder_var,
                   fixedVars, listVars, ui_queue, save_queue, liveThreads,
                   pc, files,
                   comVars, psVars, emitted, raised, handshake,
                   cancelledBefore>>

----------------------------------------------------------------------------
\* ExcelMergeWorker, COM strategy (lines 110-270).

\* The host may raise in a call while the run's fault budget lasts.
MayRaise(n) == Len(raised) + n <= MaxFaults

\* time.strftime of line 35: the clock, read as the number of events the
\* worker has emitted so far (a later reading differs from an earlier one).
Clock == Len(emitted)

\* Mutant: run() lets the exception end the thread without a Done event.
RunExceptSilent(site) ==
    /\ NoPut
    /\ pc' = "ended"
    /\ liveThreads' = liveThreads - 1

\* Mutant: run() puts the Done event before the log line and the error.
RunExceptDoneFirst(site) ==
    /\ Put(<<Done("error"), Log("ERROR", 0), ErrorEvent(site)>>)
    /\ pc' = "ended"
    /\ liveThreads' = liveThreads - 1

\* An exception leaves _run_impl: the log line, the error and the Done of
\* lines 113-116, and the thread ends.
RunExcept(site) ==
    /\ Put(<<Log("ERROR", 0), ErrorEvent(site), Done("error")>>)
    /\ pc' = "ended"
    /\ liveThreads' = liveThreads - 1

\* Mutant: the finally of _run_impl releases nothing.
FinallyNothing(wb, app, c, q) ==
    /\ closeCalls' = closeCalls + c
    /\ quitCalls' = quitCalls + q

\* The finally of lines 254-270, reached with dest_wb = wb and excel = app
\* after c calls of dest_wb.Close and q calls of excel.Quit made by the step
\* it ends: one more Close when dest_wb is set and one more Quit when excel
\* is set; what they raise is swallowed.
Finally(wb, app, c, q) ==
    /\ closeCalls' = closeCalls + c + (IF wb = "Workbook" THEN 1 ELSE 0)
    /\ quitCalls' = quitCalls + q + (IF app = "App" THEN 1 ELSE 0)

\* Lines 119-126: the import decides the strategy.
W_Import ==
    /\ pc = "start"
    /\ pc' = IF pywin32 THEN "dispatch" ELSE "ps_setup"
    /\ NoPut
    /\ UNCHANGED <<appVars, save_queue, liveThreads, files, comVars, psVars,
                   raised, handshake>>

\* Lines 130-142: DispatchEx and the four unguarded settings.  When one of
\* them raises, the finally of lines 254-270 runs, then run's handler.
W_Dispatch ==
    /\ pc = "dispatch"
    /\ \/ /\ excel' = "App"
          /\ pc' = "add"
          /\ NoPut
          /\ UNCHANGED <<raised, closeCalls, quitCalls, liveThreads>>
       \/ /\ MayRaise(1)
          /\ raised' = Append(raised, "DispatchEx")
          /\ Finally(dest_wb, excel, 0, 0)
          /\ RunExcept("DispatchEx")
          /\ UNCHANGED excel
       \/ /\ MayRaise(1)
          /\ excel' = "App"
          /\ raised' = Append(raised, "Settings")
          /\ Finally(dest_wb, "App", 0, 0)
          /\ RunExcept("Settings")
    /\ UNCHANGED <<appVars, save_queue, files, dest_wb, sheets,
                   initial_sheets, copied_any, idx, sidx, delPos, src_wb,
                   existing, suggested, status, saved, psVars, handshake>>

\* Lines 144-154: the destination workbook and its placeholder sheets.
W_Add ==
    /\ pc = "add"
    /\ \/ \E k \in NewWorkbookSheets, enumerated \in BOOLEAN :
            /\ enumerated \/ MayRaise(1)
            /\ dest_wb' = "Workbook"
            /\ sheets' = [i \in 1..k |-> Placeholder(i)]
            /\ initial_sheets' = IF enumerated THEN [i \in 1..k |-> i] ELSE <<>>
            /\ raised' = IF enumerated THEN raised ELSE Append(raised, "Enumerate")
            /\ Put(<<Log("total", N)>>)
            /\ copied_any' = FALSE
            /\ idx' = 1
            /\ pc' = "file_check"
            /\ UNCHANGED <<closeCalls, quitCalls, liveThreads>>
       \/ /\ MayRaise(1)
          /\ raised' = Append(raised, "Add")
          /\ Finally(dest_wb, excel, 0, 0)
          /\ RunExcept("Add")
          /\ UNCHANGED <<dest_wb, sheets, initial_sheets, copied_any, idx>>
    /\ UNCHANGED <<appVars, save_queue, files, excel, sidx, delPos, src_wb,
                   existing, suggested, status, saved, psVars, handshake>>

\* Mutant: the file-level checkpoint does not look at the flag.
CancelNeverSeen == FALSE

\* Line 157: the file-level checkpoint.
CancelSeen == cancel_event

\* Lines 156-164: loop head, checkpoint, progress.
W_FileCheck ==
    /\ pc = "file_check"
    /\ IF idx > N
       THEN /\ pc' = "after_loop"
            /\ NoPut
       ELSE IF CancelSeen
       THEN /\ pc' = "after_loop"
            /\ Put(<<Log("cancelled", 0)>>)
       ELSE /\ pc' = "open"
            /\ Put(<<Progress(idx, N), Log("open", idx)>>)
    /\ UNCHANGED <<appVars, save_queue, liveThreads, files, comVars, psVars,
                   raised, handshake>>

\* Mutant: a failing Open ends the loop over the files.
OpenFailedStops ==
    /\ raised' = Append(raised, "Open")
    /\ Put(<<Log("WARN", idx)>>)
    /\ idx' = N + 1
    /\ pc' = "file_check"
    /\ UNCHANGED <<src_wb, sidx, liveThreads>>

\* Mutant: a failing Open is not caught at line 199.
OpenFailedFatal ==
    /\ raised' = Append(raised, "Open")
    /\ RunExcept("Open")
    /\ UNCHANGED <<src_wb, sidx, idx>>

\* What the handler of line 199 and the finally of line 201 do when
\* Workbooks.Open raises: the warning, then the next file.
OpenFailed ==
    /\ raised' = Append(raised, "Open")
    /\ Put(<<Log("WARN", idx)>>)
    /\ idx' = idx + 1
    /\ pc' = "file_check"
    /\ UNCHANGED <<src_wb, sidx, liveThreads>>

\* Lines 166-171.
W_Open ==
    /\ pc = "open"
    /\ \/ /\ src_wb' = "Workbook"
          /\ sidx' = 1
          /\ pc' = "sheet"
          /\ NoPut
          /\ UNCHANGED <<idx, raised, liveThreads>>
       \/ /\ MayRaise(1)
          /\ OpenFailed
    /\ UNCHANGED <<appVars, save_queue, files, excel, dest_wb, sheets,
                   initial_sheets, copied_any, delPos, existing, suggested,
                   status, closeCalls, quitCalls, saved, psVars, handshake>>

Desired == files[idx][sidx]

\* Mutant: after the warning the loop goes on without the finally.
SheetFailedNoFinally(site) ==
    /\ raised' = raised \o site
    /\ Put(<<Log("WARN", idx)>>)
    /\ pc' = "file_check"

\* What the handler of line 199 does when the copy or the rename of a sheet
\* raises: the warning, then the finally of line 201.
SheetFailed(site) ==
    /\ raised' = raised \o site
    /\ Put(<<Log("WARN", idx)>>)
    /\ pc' = "close_src"

\* Lines 173-186: loop head, sheet-level checkpoint, the name set, the copy.
W_Sheet ==
    /\ pc = "sheet"
    /\ \/ /\ sidx > Len(files[idx]) \/ cancel_event
          /\ pc' = "close_src"
          /\ NoPut
          /\ UNCHANGED <<existing, sheets, raised>>
       \/ /\ ~(sidx > Len(files[idx]) \/ cancel_event)
          /\ existing' = Names(sheets)
          /\ sheets' = Append(sheets,
                         [name |-> HostCopyName(Names(sheets), Desired),
                          src |-> <<idx, sidx>>, by |-> "host"])
          /\ pc' = "rename"
          /\ NoPut
          /\ UNCHANGED raised
       \/ /\ ~(sidx > Len(files[idx]) \/ cancel_event)
          /\ MayRaise(1)
          /\ SheetFailed(<<"Copy">>)
          /\ UNCHANGED <<existing, sheets>>
    /\ UNCHANGED <<appVars, save_queue, liveThreads, files, excel, dest_wb,
                   initial_sheets, copied_any, idx, sidx, delPos, src_wb,
                   suggested, status, closeCalls, quitCalls, saved, psVars,
                   handshake>>

\* copied.Name = name (lines 190, 194): the copy is the last sheet.
Renamed(shs, name) ==
    [shs EXCEPT ![Len(shs)] = [@ EXCEPT !.name = name, !.by = "driver"]]

\* Lines 188-197: the rename, the one retry, the log line.
W_Rename ==
    /\ pc = "rename"
    /\ LET unique == make_unique_sheet_name(existing, Desired)
           fallback == make_unique_sheet_name(existing, Desired \o CopyMarker)
       IN  \/ /\ unique # NameSpaceExhausted
              /\ sheets' = Renamed(sheets, unique)
              /\ copied_any' = TRUE
              /\ Put(<<Log("copy", idx)>>)
              /\ sidx' = sidx + 1
              /\ pc' = "sheet"
              /\ UNCHANGED raised
           \/ /\ unique # NameSpaceExhausted
              /\ fallback # NameSpaceExhausted
              /\ MayRaise(1)
              /\ raised' = Append(raised, "Rename")
              /\ sheets' = Renamed(sheets, fallback)
              /\ copied_any' = TRUE
              /\ Put(<<Log("copy", idx)>>)
              /\ sidx' = sidx + 1
              /\ pc' = "sheet"
           \/ /\ MayRaise(2)
              /\ SheetFailed(<<"Rename", "RenameRetry">>)
              /\ UNCHANGED <<sheets, copied_any, sidx>>
    /\ UNCHANGED <<appVars, save_queue, liveThreads, files, excel, dest_wb,
                   initial_sheets, idx, delPos, src_wb, existing, suggested,
                   status, closeCalls, quitCalls, saved, psVars, handshake>>

\* Lines 201-206: src_wb.Close is called, then the next file.  When Close
\* raises, the exception is swallowed and the host may keep the workbook
\* open.
W_CloseSrc ==
    /\ pc = "close_src"
    /\ src_wb' = "None"
    /\ idx' = idx + 1
    /\ pc' = "file_check"
    /\ NoPut
    /\ \/ UNCHANGED raised
       \/ /\ MayRaise(1)
          /\ raised' = Append(raised, "CloseSrc")
    /\ UNCHANGED <<appVars, save_queue, liveThreads, files, excel, dest_wb,
                   sheets, initial_sheets, copied_any, sidx, delPos, existing,
                   suggested, status, closeCalls, quitCalls, saved, psVars,
                   handshake>>

\* Mutant: the placeholders are removed whether or not a sheet was copied.
RemoveRegardless == initial_sheets # <<>>

\* Line 216: the placeholders are removed only after at least one copy.
RemovePlaceholders == copied_any /\ initial_sheets # <<>>

\* Lines 208-220: the cancel check after the loop, else placeholder removal.
W_AfterLoop ==
    /\ pc = "after_loop"
    /\ IF cancel_event
       THEN /\ status' = "cancelled"
            /\ pc' = "close"
            /\ UNCHANGED delPos
       ELSE IF RemovePlaceholders
       THEN /\ delPos' = 1
            /\ pc' = "delete"
            /\ UNCHANGED status
       ELSE /\ pc' = "prepare"
            /\ UNCHANGED <<status, delPos>>
    /\ NoPut
    /\ UNCHANGED <<appVars, save_queue, liveThreads, files, excel, dest_wb,
                   sheets, initial_sheets, copied_any, idx, sidx, src_wb,
                   existing, suggested, closeCalls, quitCalls, saved, psVars,
                   raised, handshake>>

\* Mutant: Delete leaves the sheet in place.
WithoutNothing(shs, i) == shs

\* sh.Delete() for the placeholder numbered i.
Without(shs, i) == SelectSeq(shs, LAMBDA sh : sh.src # <<0, i>>)

\* Line 223: the last remaining sheet is never deleted.
KeepLast(shs) == Len(shs) <= 1

\* Lines 221-227: one turn of the placeholder loop.
W_Delete ==
    /\ pc = "delete"
    /\ \/ /\ delPos > Len(initial_sheets) \/ KeepLast(sheets)
          /\ pc' = "prepare"
          /\ UNCHANGED <<sheets, delPos, raised>>
       \/ /\ ~(delPos > Len(initial_sheets) \/ KeepLast(sheets))
          /\ sheets' = Without(sheets, initial_sheets[delPos])
          /\ delPos' = delPos + 1
          /\ UNCHANGED <<pc, raised>>
       \/ /\ ~(delPos > Len(initial_sheets) \/ KeepLast(sheets))
          /\ MayRaise(1)
          /\ raised' = Append(raised, "Delete")
          /\ delPos' = delPos + 1
          /\ UNCHANGED <<pc, sheets>>
    /\ NoPut
    /\ UNCHANGED <<appVars, save_queue, liveThreads, files, excel, dest_wb,
                   initial_sheets, copied_any, idx, sidx, src_wb, existing,
                   suggested, status, closeCalls, quitCalls, saved, psVars,
                   handshake>>

\* Mutant: safe_default_filename is called again for every request.
SuggestedNameAgain(first, now) == now

\* Line 230: safe_default_filename is called once, before the loop.
SuggestedName(first, now) == first

\* Lines 229-230: the log line and the suggested name.
W_Prepare ==
    /\ pc = "prepare"
    /\ Put(<<Log("merged", 0)>>)
    /\ suggested' = Clock
    /\ pc' = "request"
    /\ UNCHANGED <<appVars, save_queue, liveThreads, files, excel, dest_wb,
                   sheets, initial_sheets, copied_any, idx, sidx, delPos,
                   src_wb, existing, status, closeCalls, quitCalls, saved,
                   psVars, raised, handshake>>

\* request_save_path, line 107: the put.
W_RequestSave ==
    /\ pc = "request"
    /\ Put(<<RequestSave(SuggestedName(suggested, Clock), folder_var)>>)
    /\ pc' = "await"
    /\ UNCHANGED <<appVars, save_queue, liveThreads, files, comVars, psVars,
                   raised, handshake>>

\* Mutant: the get does not block and yields None on an empty queue.
SaveQueueGetNoWait(q) ==
    [ready |-> TRUE,
     item |-> IF q = <<>> THEN "None" ELSE Head(q),
     rest |-> IF q = <<>> THEN q ELSE Tail(q)]

\* self.save_queue.get() of line 108: blocks until an answer is there.
SaveQueueGet(q) ==
    [ready |-> q # <<>>,
     item |-> IF q = <<>> THEN "None" ELSE Head(q),
     rest |-> IF q = <<>> THEN q ELSE Tail(q)]

Answered(ans, res) == [ans |-> ans, res |-> res]

SaveFailures == Len(SelectSeq(handshake, LAMBDA h : h.res = "fail"))

\* Mutant: the abort signal is taken for a path.
IsAbortNever(item) == FALSE

\* Line 234: None is the abort signal.
IsAbort(item) == item = "None"

\* Lines 233-249: the answer arrives; abort, save, or failed save.
W_Answer ==
    /\ pc = "await"
    /\ LET got == SaveQueueGet(save_queue) IN
       /\ got.ready
       /\ save_queue' = got.rest
       /\ \/ /\ IsAbort(got.item)
             /\ Put(<<Log("nosave", 0)>>)
             /\ handshake' = Append(handshake, Answered(got.item, "abort"))
             /\ status' = "nosave"
             /\ pc' = "close"
             /\ UNCHANGED saved
          \/ /\ ~IsAbort(got.item)
             /\ saved' = TRUE
             /\ Put(<<Log("saved", 0)>>)
             /\ handshake' = Append(handshake, Answered(got.item, "ok"))
             /\ status' = "saved"
             /\ pc' = "close"
          \/ /\ ~IsAbort(got.item)
             /\ SaveFailures < MaxSaveFailures
             /\ Put(<<Log("save_error", 0)>>)
             /\ handshake' = Append(handshake, Answered(got.item, "fail"))
             /\ pc' = "request"
             /\ UNCHANGED <<saved, status>>
    /\ UNCHANGED <<appVars, liveThreads, files, excel, dest_wb, sheets,
                   initial_sheets, copied_any, idx, sidx, delPos, src_wb,
                   existing, suggested, closeCalls, quitCalls, psVars, raised>>

\* Lines 210-212, 236-238, 250-252: Close, Quit, Done; then the finally of
\* lines 254-270 calls Close and Quit once more and the thread ends.  When
\* Close or Quit raises, the finally runs and then run's handler.
W_Close ==
    /\ pc = "close"
    /\ \/ /\ Finally(dest_wb, excel, 1, 1)
          /\ Put(<<Done(status)>>)
          /\ pc' = "ended"
          /\ liveThreads' = liveThreads - 1
          /\ UNCHANGED raised
       \/ /\ MayRaise(1)
          /\ Finally(dest_wb, excel, 1, 0)
          /\ raised' = Append(raised, "Close")
          /\ RunExcept("Close")
       \/ /\ MayRaise(1)
          /\ Finally(dest_wb, excel, 1, 1)
          /\ raised' = Append(raised, "Quit")
          /\ RunExcept("Quit")
    /\ UNCHANGED <<appVars, save_queue, files, excel, dest_wb, sheets,
                   initial_sheets, copied_any, idx, sidx, delPos, src_wb,
                   existing, suggested, status, saved, psVars, handshake>>

----------------------------------------------------------------------------
\* ExcelMergeWorker, PowerShell strategy (lines 272-392).

\* Exit codes of the external process.
ExitCodes == {0, 1, 2, 3}

\* Lines 273-291: the script check, the temporary file list, the log line.
W_PsSetup ==
    /\ pc = "ps_setup"
    /\ \/ /\ MayRaise(1)
          /\ raised' = Append(raised, "ScriptMissing")
          /\ RunExcept("ScriptMissing")
          /\ UNCHANGED file_list
       \/ /\ MayRaise(1)
          /\ raised' = Append(raised, "WriteList")
          /\ RunExcept("WriteList")
          /\ UNCHANGED file_list
       \/ /\ file_list' = TRUE
          /\ Put(<<Log("ps_total", N)>>)
          /\ pc' = "ps_popen"
          /\ UNCHANGED <<raised, liveThreads>>
    /\ UNCHANGED <<appVars, save_queue, files, comVars, proc, rc, cancel_flag,
                   flagWrites, linesRead, handshake>>

\* Lines 309-317: Popen, outside the try of line 319.
W_PsPopen ==
    /\ pc = "ps_popen"
    /\ \/ /\ proc' = "running"
          /\ pc' = "ps_loop"
          /\ NoPut
          /\ UNCHANGED <<raised, liveThreads>>
       \/ /\ MayRaise(1)
          /\ raised' = Append(raised, "Popen")
          /\ RunExcept("Popen")
          /\ UNCHANGED proc
    /\ UNCHANGED <<appVars, save_queue, files, comVars, rc, file_list,
                   cancel_flag, flagWrites, linesRead, handshake>>

\* The lines the external process may write, by the branch that reads them.
LineKinds == {"LOG", "PROGRESS", "PROGRESS_BAD", "REQUEST_SAVE", "OTHER", "BLANK"}

\* Mutant: the sentinel is written whether or not it exists.
SentinelDueAgain == cancel_event

\* Line 324: the flag is set and the sentinel does not exist.
SentinelDue == cancel_event /\ ~cancel_flag

\* Lines 324-328, the head of a turn of the read loop: the sentinel is
\* written when it is due; a write that raises is swallowed (line 327) and
\* may leave no file.
W_PsLoop ==
    /\ pc = "ps_loop"
    /\ IF SentinelDue
       THEN /\ flagWrites' = flagWrites + 1
            /\ cancel_flag' \in BOOLEAN
       ELSE UNCHANGED <<cancel_flag, flagWrites>>
    /\ pc' = "ps_read"
    /\ NoPut
    /\ UNCHANGED <<appVars, save_queue, liveThreads, files, comVars, proc, rc,
                   file_list, linesRead, raised, handshake>>

\* Lines 330-361, the rest of the turn: a line is read and dispatched, or
\* the process has exited.
W_PsRead ==
    /\ pc = "ps_read"
    /\ \/ /\ proc' = "exited"
          /\ rc' \in ExitCodes
          /\ pc' = "ps_wait"
          /\ NoPut
          /\ UNCHANGED linesRead
       \/ /\ linesRead < MaxLines
          /\ linesRead' = linesRead + 1
          /\ UNCHANGED <<proc, rc>>
          /\ \E kind \in LineKinds :
               CASE kind = "LOG" ->
                      Put(<<Log("ps_log", 0)>>) /\ pc' = "ps_loop"
                 [] kind = "OTHER" ->
                      Put(<<Log("ps_line", 0)>>) /\ pc' = "ps_loop"
                 [] kind = "PROGRESS" ->
                      Put(<<Progress(linesRead', N)>>) /\ pc' = "ps_loop"
                 [] kind = "REQUEST_SAVE" ->
                      /\ Put(<<RequestSave(0, folder_var)>>)
                      /\ pc' = "ps_await"
                 [] OTHER ->
                      NoPut /\ pc' = "ps_loop"
    /\ UNCHANGED <<appVars, save_queue, liveThreads, files, comVars,
                   file_list, cancel_flag, flagWrites, raised, handshake>>

\* The finally of lines 377-392: terminate, unlink, unlink.
PsCleanup ==
    /\ proc' = "exited"
    /\ file_list' = FALSE
    /\ cancel_flag' = FALSE

\* Lines 356-359: the answer is written to the process's stdin.
W_PsAnswer ==
    /\ pc = "ps_await"
    /\ LET got == SaveQueueGet(save_queue) IN
       /\ got.ready
       /\ save_queue' = got.rest
       /\ handshake' = Append(handshake, Answered(got.item, "written"))
    /\ \/ /\ pc' = "ps_loop"
          /\ NoPut
          /\ UNCHANGED <<raised, liveThreads, proc, file_list, cancel_flag>>
       \/ /\ MayRaise(1)
          /\ raised' = Append(raised, "Stdin")
          /\ PsCleanup
          /\ RunExcept("Stdin")
    /\ UNCHANGED <<appVars, files, comVars, rc, flagWrites, linesRead>>

\* Lines 368-375: the status for an exit code; "raise" is line 375.
StatusOfExit(code) ==
    CASE code = 0 -> "saved"
      [] code = 3 -> "nosave"
      [] code = 2 -> "cancelled"
      [] OTHER -> "raise"

\* Lines 364-375: the status the worker reports once the process has exited.
PsOutcome(cancelled, code) ==
    IF cancelled THEN "cancelled" ELSE StatusOfExit(code)

\* Lines 363-375, then the finally of lines 377-392.
W_PsWait ==
    /\ pc = "ps_wait"
    /\ IF PsOutcome(cancel_event, rc) # "raise"
       THEN /\ Put(<<Done(PsOutcome(cancel_event, rc))>>)
            /\ pc' = "ended"
            /\ liveThreads' = liveThreads - 1
            /\ UNCHANGED raised
       ELSE /\ raised' = Append(raised, "ExitCode")
            /\ RunExcept("ExitCode")
    /\ PsCleanup
    /\ UNCHANGED <<appVars, save_queue, files, comVars, rc, flagWrites,
                   linesRead, handshake>>

----------------------------------------------------------------------------

Next ==
    \/ RefreshList
    \/ StartMerge
    \/ CancelMerge
    \/ PollBegin
    \/ PollEvent
    \/ PollEnd
    \/ W_Import
    \/ W_Dispatch
    \/ W_Add
    \/ W_FileCheck
    \/ W_Open
    \/ W_Sheet
    \/ W_Rename
    \/ W_CloseSrc
    \/ W_AfterLoop
    \/ W_Delete
    \/ W_Prepare
    \/ W_RequestSave
    \/ W_Answer
    \/ W_Close
    \/ W_PsSetup
    \/ W_PsPopen
    \/ W_PsLoop
    \/ W_PsRead
    \/ W_PsRead
    \/ W_PsAnswer
    \/ W_PsWait

Spec == Init /\ [][Next]_vars

\* The steps of the worker thread (threading.Thread, line 84).
Worker ==
    \/ W_Import \/ W_Dispatch \/ W_Add \/ W_FileCheck \/ W_Open \/ W_Sheet
    \/ W_Rename \/ W_CloseSrc \/ W_AfterLoop \/ W_Delete \/ W_Prepare
    \/ W_RequestSave \/ W_Answer \/ W_Close
    \/ W_PsSetup \/ W_PsPopen \/ W_PsLoop \/ W_PsRead
    \/ W_PsAnswer \/ W_PsWait

\* The steps of the poll the Tk timer runs every 120 ms (lines 412, 575).
Poll == PollBegin \/ PollEvent \/ PollEnd

\* The window set up on the folder with one workbook of one sheet.
FairInit == Init /\ folder_var = 4 /\ ~selected_only_var

\* A started thread keeps running and the timer keeps firing: every call
\* into the host returns or raises, the external process ends after at most
\* MaxLines lines, and each save dialog is answered.
FairSpec == FairInit /\ [][Next]_vars /\ WF_vars(Worker) /\ WF_vars(Poll)

----------------------------------------------------------------------------
\* make_unique_sheet_name (lines 50-62) called on its own, twice with the
\* same arguments.

\* Names a destination workbook may hold.
SampleNames ==
    {Jan, Jan \o Suffix(2), Jan \o Suffix(3), DefaultLabel, LongName,
     Take(LongName, MaxSheetNameLen - 2) \o Suffix(2)}

\* The base and every candidate the loop of line 55 tries for it.
AllCandidates(base) ==
    {base} \cup {Candidate(base, n) : n \in 2..(SuffixLimit - 1)}

SampleSets ==
    (SUBSET SampleNames)
      \cup {AllCandidates(Jan),
            AllCandidates(Jan) \ {Candidate(Jan, SuffixLimit - 1)}}

\* Desired names: plain, padded with whitespace, empty, blank, with illegal
\* characters, of 31 characters, of 32 characters, and of 31 characters
\* ending in a blank after the cut.
SampleDesired ==
    {Jan,
     <<" ">> \o Jan \o <<" ", "\t">>,
     <<>>,
     <<" ", " ">>,
     <<"J", ":", "a", "/", "n", "?", "*", "[", "]", "\\">>,
     LongName,
     LongName \o <<"y">>,
     Take(LongName, MaxSheetNameLen - 1) \o <<" ", "z">>}

NamingInit ==
    /\ call \in [existing_names : SampleSets, desired : SampleDesired,
                  result : {NotCalled}, again : {NotCalled}]
    /\ folder_var = 1
    /\ item_to_path = ListedFiles[1]
    /\ selected_only_var = FALSE
    /\ selection = {}
    /\ pywin32 = TRUE
    /\ Constructed

CallMakeUnique ==
    /\ call.result = NotCalled
    /\ call' = [call EXCEPT !.result =
                   make_unique_sheet_name(call.existing_names, call.desired)]
    /\ UNCHANGED <<worker, cancel_event, ui_queue, save_queue, start_btn,
                   cancel_btn, uiPc, folder_var, pywin32, liveThreads, pc,
                   files, comVars, psVars, emitted, raised, handshake,
                   cancelledBefore, selected_only_var, listVars>>

CallAgain ==
    /\ call.result # NotCalled
    /\ call.again = NotCalled
    /\ call' = [call EXCEPT !.again =
                   make_unique_sheet_name(call.existing_names, call.desired)]
    /\ UNCHANGED <<worker, cancel_event, ui_queue, save_queue, start_btn,
                   cancel_btn, uiPc, folder_var, pywin32, liveThreads, pc,
                   files, comVars, psVars, emitted, raised, handshake,
                   cancelledBefore, selected_only_var, listVars>>

NamingNext ==
    \/ CallMakeUnique
    \/ CallAgain

NamingSpec == NamingInit /\ [][NamingNext]_vars

----------------------------------------------------------------------------
\* Properties.

Primary == pywin32

Last(s) == s[Len(s)]

Events(kind) == SelectSeq(emitted, LAMBDA e : e.kind = kind)

Emitted(ev) == \E i \in 1..Len(emitted) : emitted[i] = ev

\* The run ended in Error because Close or Quit raised in the sequence of
\* lines 210-212, 236-238 or 250-252.
ReleaseFailed ==
    /\ raised # <<>>
    /\ Last(raised) \in {"Close", "Quit"}
    /\ Last(emitted) = Done("error")

\* C1: while the destination workbook of a COM run exists, its worksheet
\* names are pairwise distinct, and every name the driver has assigned to a
\* copy has at most 31 characters and none of : \ / ? * [ ].
C1_NamesDistinctAndLegal ==
    (Primary /\ dest_wb = "Workbook") =>
        /\ \A i, j \in 1..Len(sheets) :
             i # j => sheets[i].name # sheets[j].name
        /\ \A i \in 1..Len(sheets) :
             sheets[i].by = "driver" => Legal(sheets[i].name)

\* C1 witness: the driver has named a copy with a suffix after cutting the
\* base to make room for it.
C1_Witness ==
    /\ Primary
    /\ dest_wb = "Workbook"
    /\ \E i \in 1..Len(sheets) :
         /\ sheets[i].by = "driver"
         /\ sheets[i].name = Take(LongName, MaxSheetNameLen - 2) \o <<"_", "2">>
         /\ \E j \in 1..Len(sheets) : j # i /\ sheets[j].name = LongName

\* The first SaveRequested of a COM run is out and not yet answered.
AtFirstRequest == Primary /\ pc = "await" /\ handshake = <<>>

\* All source sheets in file order, then native order.
RECURSIVE SourceSheets(_, _)
SourceSheets(fs, f) ==
    IF f > Len(fs) THEN <<>>
    ELSE [s \in 1..Len(fs[f]) |-> [name |-> fs[f][s], src |-> <<f, s>>]]
         \o SourceSheets(fs, f + 1)

\* The name for d by the rule "the source name, or with the first free
\* suffix _2, _3, ..." against the names in used.
SuffixedName(used, d) ==
    IF d \notin used THEN d
    ELSE LET n == CHOOSE n \in 2..20 :
                    /\ d \o Suffix(n) \notin used
                    /\ \A m \in 2..(n - 1) : d \o Suffix(m) \in used
         IN  d \o Suffix(n)

\* The same rule with the base cut so that the result fits 31 characters.
FittedName(used, d) ==
    IF d \notin used THEN d
    ELSE LET cand(n) == Take(d, MaxSheetNameLen - Len(Suffix(n))) \o Suffix(n)
             n == CHOOSE n \in 2..20 :
                    /\ cand(n) \notin used
                    /\ \A m \in 2..(n - 1) : cand(m) \in used
         IN  cand(n)

\* The names of the merged sheets when only earlier copies count as used.
RECURSIVE NamesByCopies(_, _, _)
NamesByCopies(src, i, used) ==
    IF i > Len(src) THEN <<>>
    ELSE LET nm == SuffixedName(used, src[i].name)
         IN  <<[name |-> nm, src |-> src[i].src]>>
             \o NamesByCopies(src, i + 1, used \cup {nm})

\* The names of the merged sheets when every name in the destination counts.
RECURSIVE NamesByDestination(_, _, _)
NamesByDestination(src, i, used) ==
    IF i > Len(src) THEN <<>>
    ELSE LET nm == FittedName(used, src[i].name)
         IN  <<[name |-> nm, src |-> src[i].src]>>
             \o NamesByDestination(src, i + 1, used \cup {nm})

Merged == [i \in 1..Len(sheets) |-> [name |-> sheets[i].name, src |-> sheets[i].src]]

PlaceholderNames == {PlaceholderName(initial_sheets[i]) : i \in 1..Len(initial_sheets)}

CancelObserved == Emitted(Log("cancelled", 0))

\* What C3 says of a run cancelled before the checkpoint of file k, up to
\* its terminal event.
CancelledRunFrame ==
    /\ \A i \in 1..Len(emitted) :
         /\ emitted[i].kind = "progress" => emitted[i].a < cancelledBefore
         /\ emitted[i].kind # "request_save"
         /\ emitted[i] # Done("saved")
    /\ \A i \in 1..Len(sheets) : sheets[i].src[1] < cancelledBefore
    /\ ~saved
    /\ (pc = "ended" /\ CancelObserved) => closeCalls >= 1

\* C3 as claimed: when the cancel flag is set before the worker reaches the
\* checkpoint of file k, no Progress and no copy is made for files k..N, no
\* SaveRequested is issued, the destination is closed unsaved, and the
\* terminal event is Done(Cancelled).
C3_Original ==
    (Primary /\ cancelledBefore \in 1..N) =>
        /\ CancelledRunFrame
        /\ (pc = "ended" /\ CancelObserved) => Last(emitted) = Done("cancelled")

\* C3 amended: the same, where the terminal event is Done(Cancelled) unless
\* the Close or the Quit of lines 210-211 raises, and is Done(Error) then.
C3_CancelBeforeCheckpoint ==
    (Primary /\ cancelledBefore \in 1..N) =>
        /\ CancelledRunFrame
        /\ (pc = "ended" /\ CancelObserved) =>
              \/ Last(emitted) = Done("cancelled")
              \/ ReleaseFailed

\* C3 witness: cancelled after file 1 of 3 was copied; the run has ended.
C3_Witness ==
    /\ Primary
    /\ N = 3
    /\ cancelledBefore = 2
    /\ pc = "ended"
    /\ Last(emitted) = Done("cancelled")
    /\ closeCalls >= 1
    /\ \E i \in 1..Len(sheets) : sheets[i].src[1] = 1

Requests == Events("request_save")

SaveErrors == SelectSeq(emitted, LAMBDA e : e = Log("save_error", 0))

\* handshake is k failing saves followed by one successful save.
FailuresThenSaved ==
    /\ handshake # <<>>
    /\ Last(handshake).res = "ok"
    /\ \A i \in 1..(Len(handshake) - 1) : handshake[i].res = "fail"

\* What C4 says of the handshake up to the terminal event: one
\* SaveRequested per answer, all with one suggested name, every failing save
\* logged and followed by a new SaveRequested.
HandshakeCounts ==
    /\ Len(Requests) = Len(handshake) + (IF pc = "await" THEN 1 ELSE 0)
    /\ \A i, j \in 1..Len(Requests) : Requests[i] = Requests[j]
    /\ Len(SaveErrors) = SaveFailures

\* C4 as claimed: k failing paths then a path that saves give exactly k+1
\* SaveRequested with one suggested name, k logged failures, and Saved.
C4_Original ==
    (Primary /\ pc \in {"request", "await", "close", "ended"}) =>
        /\ HandshakeCounts
        /\ (pc = "ended" /\ FailuresThenSaved) =>
              /\ Len(Requests) = Len(handshake)
              /\ Last(emitted) = Done("saved")

\* C4 amended: the same, where the terminal status is Saved unless the Close
\* or the Quit of lines 250-251 raises after the save, and is Error then.
C4_SaveRetry ==
    (Primary /\ pc \in {"request", "await", "close", "ended"}) =>
        /\ HandshakeCounts
        /\ (pc = "ended" /\ FailuresThenSaved) =>
              /\ Len(Requests) = Len(handshake)
              /\ saved
              /\ Last(emitted) = Done("saved") \/ ReleaseFailed

\* C4 witness: two failing paths, then one that saves; the run ended Saved.
C4_Witness ==
    /\ Primary
    /\ pc = "ended"
    /\ [i \in 1..Len(handshake) |-> handshake[i].res] = <<"fail", "fail", "ok">>
    /\ Len(Requests) = 3
    /\ Last(emitted) = Done("saved")

\* The worker has received the abort signal.
Aborted == \E i \in 1..Len(handshake) : handshake[i].ans = "None"

\* What C5 says after the abort signal up to the terminal event: it is the
\* last answer, no SaveRequested follows it, and nothing was saved.
AbortFrame ==
    /\ Last(handshake).ans = "None"
    /\ Last(handshake).res = "abort"
    /\ \A i \in 1..(Len(handshake) - 1) : handshake[i].ans # "None"
    /\ Len(Requests) = Len(handshake)
    /\ pc \in {"close", "ended"}
    /\ ~saved
    /\ ~Emitted(Log("saved", 0))
    /\ pc = "ended" => closeCalls >= 1

\* C5 as claimed: after the abort signal the worker issues no SaveRequested,
\* saves nothing, closes the destination unsaved and ends with NoSave.
C5_Original ==
    (Primary /\ Aborted) =>
        /\ AbortFrame
        /\ pc = "ended" => Last(emitted) = Done("nosave")

\* C5 amended: the same, where the terminal status is NoSave unless the
\* Close or the Quit of lines 236-237 raises, and is Error then.
C5_AbortNoSave ==
    (Primary /\ Aborted) =>
        /\ AbortFrame
        /\ pc = "ended" => (Last(emitted) = Done("nosave") \/ ReleaseFailed)

\* C5 witness: abort on the first request; the run ended NoSave, unsaved.
C5_Witness ==
    /\ Primary
    /\ pc = "ended"
    /\ Len(handshake) = 1
    /\ handshake[1].ans = "None"
    /\ Len(Requests) = 1
    /\ ~saved
    /\ closeCalls >= 1
    /\ Last(emitted) = Done("nosave")

ProgressEvents == Events("progress")

\* The Progress events are (1, N), (2, N), ..., (j, N).
ProgressPrefix(j) ==
    /\ Len(ProgressEvents) = j
    /\ \A i \in 1..j : ProgressEvents[i] = Progress(i, N)

\* C6 as claimed: a COM run that is not cancelled emits exactly N Progress
\* events, current = 1..N, total = N; a cancelled one emits a prefix.
C6_Original ==
    Primary =>
        /\ \E j \in 0..N : ProgressPrefix(j)
        /\ (pc = "ended" /\ ~cancel_event) => ProgressPrefix(N)

\* C6 amended: the same for a run that is not cancelled and has created its
\* destination workbook; a run that is cancelled, or that ends in Error
\* before the loop over the files, emits a prefix.
C6_ProgressEvents ==
    Primary =>
        /\ \E j \in 0..N : ProgressPrefix(j)
        /\ (pc = "ended" /\ ~cancel_event /\ dest_wb = "Workbook")
              => ProgressPrefix(N)

\* C6 witness: three files, the first could not be opened, not cancelled,
\* three Progress events.
C6_Witness ==
    /\ Primary
    /\ pc = "ended"
    /\ ~cancel_event
    /\ N = 3
    /\ raised # <<>>
    /\ raised[1] = "Open"
    /\ ProgressPrefix(3)


RequestsQueued ==
    Len(SelectSeq(ui_queue, LAMBDA e : e.kind = "request_save"))

\* The worker is inside request_save_path, after the put.
Awaiting == pc \in {"await", "ps_await"}

\* C7: under every interleaving of worker and UI poll, over any number of
\* consecutive runs, a SaveRequested is outstanding exactly while the worker
\* waits in request_save_path, it is either still on ui_queue or answered by
\* exactly one item on save_queue, and the only step the worker takes while
\* it waits is taking that answer.
C7_Handshake ==
    /\ [](/\ RequestsQueued + Len(save_queue) = (IF Awaiting THEN 1 ELSE 0)
          /\ Len(save_queue) <= 1)
    /\ [][Awaiting =>
            \/ UNCHANGED <<pc, emitted, comVars, psVars, raised, handshake,
                           save_queue, liveThreads>>
            \/ /\ RequestsQueued = 1
               /\ save_queue' = Append(save_queue, "path")
                    \/ save_queue' = Append(save_queue, "None")
               /\ UNCHANGED <<pc, emitted, comVars, psVars, raised, handshake,
                              liveThreads>>
            \/ /\ save_queue # <<>>
               /\ save_queue' = Tail(save_queue)
               /\ Len(handshake') = Len(handshake) + 1]_vars

\* C7 witness: the answer to the request of a PowerShell run is on
\* save_queue and the worker has not taken it yet.
C7_Witness ==
    /\ pc = "ps_await"
    /\ Len(save_queue) = 1
    /\ RequestsQueued = 0

\* C8: at most one worker thread is alive, and only while App.worker is
\* set; while App.worker is set no step starts a thread or clears the cancel
\* flag, and a step of _start_merge changes nothing.
C8_SingleRun ==
    /\ [](/\ liveThreads <= 1
          /\ liveThreads = 1 => worker = "Thread")
    /\ [][worker = "Thread" =>
            /\ liveThreads' <= liveThreads
            /\ cancel_event => cancel_event'
            /\ StartMerge => UNCHANGED vars]_vars

\* C8 witness: the worker has emitted Done, the UI has not handled it, and
\* the start button is enabled again (by a list refresh) and can be clicked.
C8_Witness ==
    /\ worker = "Thread"
    /\ pc = "ended"
    /\ ui_queue # <<>>
    /\ start_btn
    /\ uiPc = "idle"
    /\ cancel_event

\* The PowerShell run has reached proc.wait() of line 363.
ReachedWait ==
    /\ ~Primary
    /\ pc = "ended"
    /\ raised = <<>> \/ Last(raised) = "ExitCode"

\* The terminal status the exit code stands for.
ExitStatus(code) ==
    CASE code = 0 -> "saved"
      [] code = 3 -> "nosave"
      [] code = 2 -> "cancelled"
      [] OTHER -> "error"

\* C9: in every PowerShell run, cancelled or not, the terminal status is the
\* one the exit code of the external process stands for.
C9_ExitCodeDecides ==
    ReachedWait => Last(emitted) = Done(ExitStatus(rc))

Count(site) == Len(SelectSeq(raised, LAMBDA r : r = site))

Warnings == SelectSeq(emitted, LAMBDA e : e.kind = "log" /\ e.tag = "WARN")

CopiesOf(f) == Len(SelectSeq(sheets, LAMBDA sh : sh.src[1] = f))

\* C10: in a COM run, a failing Open, Copy or rename is never the cause of
\* Done(Error) and each gives one warning; without cancellation every file
\* gets its Progress event and is opened, every file without a warning is
\* copied whole, and a run that has created its destination does not end
\* without a SaveRequested.
C10_PerFileFailures ==
    Primary =>
        /\ \A i \in 1..Len(emitted) :
             emitted[i].kind = "error" =>
                emitted[i].tag \notin {"Open", "Copy", "Rename", "RenameRetry"}
        /\ Len(Warnings) = Count("Open") + Count("Copy") + Count("RenameRetry")
        /\ Emitted(Log("merged", 0)) =>
             /\ ProgressPrefix(N)
             /\ \A f \in 1..N :
                  /\ Emitted(Log("open", f))
                  /\ Emitted(Log("WARN", f)) \/ CopiesOf(f) = Len(files[f])
        /\ (pc = "ended" /\ ~cancel_event /\ dest_wb = "Workbook")
              => Requests # <<>>

\* C10 witness: of three files the first could not be opened and a sheet of
\* the second could not be copied; the third is copied and the first
\* SaveRequested is out.
C10_Witness ==
    /\ AtFirstRequest
    /\ N = 3
    /\ raised = <<"Open", "Copy">>
    /\ Len(Warnings) = 2
    /\ CopiesOf(3) = 1

\* Copies in the destination that still bear the name the host gave them.
HostNamed == SelectSeq(sheets, LAMBDA sh : sh.src[1] # 0 /\ sh.by = "host")

\* C11: in a COM run in which one rename and its retry failed and nothing
\* else did, at the first SaveRequested the copy is in the destination under
\* its host-assigned name, one warning is logged, and every source sheet of
\* every file, the failing one's workbook included, has its copy.
C11_RenameFailureLocal ==
    (AtFirstRequest /\ raised = <<"Rename", "RenameRetry">>) =>
        /\ Len(HostNamed) = 1
        /\ Len(Warnings) = 1
        /\ \A f \in 1..N : CopiesOf(f) = Len(files[f])

Placeholders == SelectSeq(sheets, LAMBDA sh : sh.src[1] = 0)

Copies == SelectSeq(sheets, LAMBDA sh : sh.src[1] # 0)

\* C12: at the first SaveRequested of a COM run (so: not cancelled) whose
\* placeholder sheets were enumerated and in which no Delete raised, when
\* the destination holds a copy of a source sheet it holds no placeholder.
C12_PlaceholdersGone ==
    (/\ AtFirstRequest
     /\ Count("Enumerate") = 0
     /\ Count("Delete") = 0
     /\ Copies # <<>>)
        => Placeholders = <<>>

\* C13: from its creation on the destination workbook of a COM run has at
\* least one worksheet, and a step that takes a sheet away from it takes a
\* placeholder, leaves at least one sheet, and happens only when a copy of a
\* source sheet is in the workbook.
C13_NeverEmpty ==
    /\ [](dest_wb = "Workbook" => Len(sheets) >= 1)
    /\ [][(dest_wb' = "Workbook" /\ Len(sheets') < Len(sheets)) =>
            /\ pc = "delete"
            /\ Len(sheets) > 1
            /\ Len(sheets') = Len(sheets) - 1
            /\ Copies # <<>>
            /\ Copies' = Copies]_vars

\* C13 witness: both placeholders have been deleted and the one copy is the
\* only sheet left.
C13_Witness ==
    /\ Primary
    /\ pc = "delete"
    /\ Len(initial_sheets) = 2
    /\ delPos = 3
    /\ Len(sheets) = 1
    /\ Placeholders = <<>>

\* The COM run has put its Done event.
PrimaryDone == Primary /\ pc = "ended" /\ Last(emitted).kind = "done"

\* Calls made before the Done event was put: run's handler puts it after
\* the finally of _run_impl, the sequences of lines 210-212, 236-238 and
\* 250-252 put it before that finally, which then calls each once more.
CallsBeforeDone(calls, held) ==
    IF Last(emitted) = Done("error") \/ ~held THEN calls ELSE calls - 1

\* C14: when a COM run puts its Done event, whatever the status, Close has
\* been invoked on the destination workbook if it was created and Quit on
\* the Excel handle if it was acquired.
C14_ReleasedAtDone ==
    PrimaryDone =>
        /\ dest_wb = "Workbook"
             => CallsBeforeDone(closeCalls, dest_wb = "Workbook") >= 1
        /\ excel = "App" => CallsBeforeDone(quitCalls, excel = "App") >= 1

\* C14 witness: the run ended in Error because Workbooks.Add raised, with
\* the handle acquired and quit in the finally.
C14_Witness ==
    /\ PrimaryDone
    /\ raised = <<"Add">>
    /\ excel = "App"
    /\ dest_wb = "None"
    /\ quitCalls = 1

\* C15: when a PowerShell run that wrote its temporary file list has ended,
\* whatever the outcome, the external process is not running and neither
\* the file list nor the cancellation sentinel exists.
C15_FallbackCleanup ==
    (~Primary /\ pc = "ended" /\ Emitted(Log("ps_total", N))) =>
        /\ proc # "running"
        /\ ~file_list
        /\ ~cancel_flag

\* The base name of a call: sanitized, then cut to 31 characters.
BaseOf(d) == truncate_sheet_name(sanitize_sheet_name(d), MaxSheetNameLen)

\* C16: a call make_unique_sheet_name(E, d) raises the exhaustion error only
\* when the base and every candidate with a suffix _2.._9999 is in E, and
\* otherwise returns a name that is not in E, has 1 to 31 characters and
\* none of : \ / ? * [ ]; a second call with the same arguments gives the
\* same.
C16_UniqueLegalName ==
    (call.result # NotCalled) =>
        /\ call.result = NameSpaceExhausted =>
             AllCandidates(BaseOf(call.desired)) \subseteq call.existing_names
        /\ call.result # NameSpaceExhausted =>
             /\ call.result \notin call.existing_names
             /\ Len(call.result) >= 1
             /\ Len(call.result) <= MaxSheetNameLen
             /\ \A i \in 1..Len(call.result) : call.result[i] \notin Illegal
        /\ call.again # NotCalled => call.again = call.result

\* C16 witness: a name with illegal characters is wanted while its
\* sanitized form is taken.
C16_Witness ==
    /\ call.desired = <<"J", ":", "a", "/", "n", "?", "*", "[", "]", "\\">>
    /\ call.result # NotCalled
    /\ call.again = call.result
    /\ Len(call.result) >= 1

\* C20: a call that returns gives the sanitized base cut to 31 characters
\* when that is not in E; otherwise the base cut to 31 - len(suffix)
\* characters followed by the suffix _n, for the smallest n in 2..9999 whose
\* candidate is not in E.
C20_FirstFreeSuffix ==
    (call.result # NotCalled /\ call.result # NameSpaceExhausted) =>
        LET B == BaseOf(call.desired)
            E == call.existing_names
            Cut(n) == Take(B, MaxSheetNameLen - Len(Suffix(n))) \o Suffix(n)
        IN  IF B \notin E
            THEN call.result = B
            ELSE \E n \in 2..(SuffixLimit - 1) :
                   /\ call.result = Cut(n)
                   /\ Len(call.result) =
                        IF Len(B) + Len(Suffix(n)) <= MaxSheetNameLen
                        THEN Len(B) + Len(Suffix(n))
                        ELSE MaxSheetNameLen
                   /\ \A m \in 2..(n - 1) : Cut(m) \in E

\* C20 witness: the 31-character base and its candidate _2 are taken, and
\* the call returns the base cut to 29 characters with _3.
C20_Witness ==
    /\ call.desired = LongName
    /\ LongName \in call.existing_names
    /\ Take(LongName, MaxSheetNameLen - 2) \o Suffix(2) \in call.existing_names
    /\ call.result = Take(LongName, MaxSheetNameLen - 2) \o Suffix(3)

\* C17: no run has an empty file list, and from a state in which the
\* effective file list is empty no step creates a worker, and a step of
\* _start_merge changes nothing: no event, no change of the cancel flag, the
\* UI idle as before.
C17_EmptyStartRefused ==
    /\ [](worker = "Thread" => files # <<>>)
    /\ [][EffectiveFiles = <<>> =>
            /\ worker' = "Thread" => worker = "Thread"
            /\ liveThreads' <= liveThreads
            /\ StartMerge => UNCHANGED vars]_vars

\* C17 witness: a run over the selected row has ended and its Done is
\* handled; the list was refreshed, so with "selected only" still ticked no
\* row is selected, and the start button is enabled.
C17_Witness ==
    /\ worker = "None"
    /\ uiPc = "idle"
    /\ start_btn
    /\ selected_only_var
    /\ selection = {}
    /\ item_to_path # <<>>
    /\ emitted # <<>>
    /\ EffectiveFiles = <<>>

\* Source workbooks the host may hold open: the one Close has not been
\* called on, and each one whose Close raised.
OpenSources == (IF src_wb = "Workbook" THEN 1 ELSE 0) + Count("CloseSrc")

\* The events a step puts on ui_queue.
NewEvents == SubSeq(emitted', Len(emitted) + 1, Len(emitted'))

\* Every source workbook that was opened has had Close called on it when a
\* Progress, a SaveRequested or a Done event is put.
ClosedBeforeEvents ==
    /\ [](Primary /\ src_wb = "Workbook" => pc \in {"sheet", "rename", "close_src"})
    /\ [][(/\ Primary
           /\ Len(emitted') > Len(emitted)
           /\ \E i \in 1..Len(NewEvents) :
                NewEvents[i].kind \in {"progress", "request_save", "done"})
            => src_wb = "None"]_vars

C18_RunEnds ==
    (worker = "Thread") ~>
        (/\ worker = "None"
         /\ ~cancel_btn
         /\ ~StartRefused
         /\ liveThreads = 0
         /\ emitted # <<>>
         /\ Last(emitted).kind = "done")

\* C18 witness: a run that was cancelled and waited for a save answer has
\* ended and its Done event has been handled.
C18_Witness ==
    /\ worker = "None"
    /\ ~cancel_btn
    /\ liveThreads = 0
    /\ ui_queue = <<>>
    /\ emitted # <<>>
    /\ Last(emitted).kind = "done"
    /\ handshake # <<>>
    /\ cancel_event

\* C21 as claimed: in a PowerShell run the sentinel exists only once the
\* cancel flag is set, it is written at most once, and at a protocol read
\* made with the flag set the sentinel exists.
C21_Original ==
    /\ [](cancel_flag => cancel_event)
    /\ [](flagWrites <= 1)
    /\ [][(pc = "ps_read" /\ pc' # "ps_read" /\ cancel_event)
            => cancel_flag]_vars

\* C21 amended: the sentinel exists only once the cancel flag is set; it is
\* written only by the check at the head of a turn of the read loop, and
\* only when that check finds the flag set and the sentinel absent, so that
\* every write but the last is one that failed and left no file; the
\* sentinel comes into existence only by such a write; a check that finds
\* the flag set leaves the sentinel existing unless its write failed, and
\* nothing takes the sentinel away between the check and the read.
C21_SentinelWritten ==
    /\ [](cancel_flag => cancel_event)
    /\ [][flagWrites' # flagWrites =>
            \/ /\ pc = "ps_loop"
               /\ cancel_event
               /\ ~cancel_flag
               /\ flagWrites' = flagWrites + 1
            \/ pc' = "start" /\ flagWrites' = 0]_vars
    /\ [][(~cancel_flag /\ cancel_flag') => flagWrites' = flagWrites + 1]_vars
    /\ [][(pc = "ps_loop" /\ pc' = "ps_read" /\ cancel_event) =>
            \/ cancel_flag'
            \/ ~cancel_flag /\ flagWrites' = flagWrites + 1]_vars
    /\ [][pc = "ps_read" => cancel_flag' = cancel_flag]_vars

\* C21 witness: the first write of the sentinel failed, the second made it,
\* and the worker is about to read with the sentinel in place.
C21_Witness ==
    /\ pc = "ps_read"
    /\ cancel_event
    /\ cancel_flag
    /\ flagWrites = 2

\* The Done events the run has put.
Dones == Events("done")

\* C22: under FairSpec every started run, COM or PowerShell, whatever raises
\* and wherever, comes to have put exactly one Done event; no run ever puts
\* a second one, ui_queue never holds two, a thread that has ended has put
\* its Done, and the Done is the last event of the run: nothing is put
\* after it until the next run starts.
C22_OneDoneLast ==
    /\ [](/\ Len(Dones) <= 1
          /\ Dones # <<>> => Last(emitted).kind = "done"
          /\ Len(SelectSeq(ui_queue, LAMBDA e : e.kind = "done")) <= 1
          /\ pc = "ended" => Dones # <<>>)
    /\ [][Dones # <<>> => (emitted' = emitted \/ pc' = "start")]_vars
    /\ (pc = "start") ~> (Len(Dones) = 1)

\* C22 witness: a PowerShell run whose process exited with an undocumented
\* code has ended with the error raised at line 375, its one Done the last
\* of its events.
C22_Witness ==
    /\ ~Primary
    /\ pc = "ended"
    /\ raised = <<"ExitCode">>
    /\ Len(Dones) = 1
    /\ Last(emitted) = Done("error")
    /\ Len(emitted) > 3

====
